---- MODULE Spec2Model ----
(***************************************************************************)
(* Model of kafe/function_tools.py: the finite-difference derivative       *)
(* helpers (derivative, derive_by_x, derive_by_parameters), the signature  *)
(* introspector get_function_property and outer_product.                   *)
(*                                                                         *)
(* Numbers are integers.  A derivative value is the exact rational         *)
(* [num, den] of the difference quotient, so that two quotients can be     *)
(* compared without rounding.  Every call of the function-under-test made  *)
(* during an operation is recorded, in order, in the operation's log.      *)
(***************************************************************************)
EXTENDS Integers, Sequences, FiniteSets, TLC

\* ------------------------------------------------------------------ bounds
MaxNum == 2
MaxParams == 2
MaxPoints == 2
MaxVec == 3
MaxHalfStep == 2
RecursionLimit == 4

Nums == -1..MaxNum
NatNums == 0..MaxNum
Steps == {2 * i : i \in 1..MaxHalfStep}

SeqsUpTo(S, n) == UNION {[1..m -> S] : m \in 0..n}

\* ------------------------------------------------------- Python values
PyNone == [t |-> "none"]
PyInt(n) == [t |-> "int", v |-> n]
PyName(s) == [t |-> "str", name |-> s]
PyText(chars) == [t |-> "text", chars |-> chars]
PyTuple(items) == [t |-> "tuple", items |-> items]
PyList(items) == [t |-> "list", items |-> items]

\* outcome of a computation: a returned value or a raised exception,
\* together with the evaluations of the function-under-test made so far
Ok(v, log) == [ok |-> TRUE, val |-> v, log |-> log]
Raise(exc, by, log) == [ok |-> FALSE, exc |-> exc, by |-> by, log |-> log]

Rat(n, d) == [num |-> n, den |-> d]
RatEq(a, b) == a.num * b.den = b.num * a.den

\* ------------------------------------------- functions-under-test
\* A Python 2 function object: __name__, func_code.co_varnames,
\* func_code.co_argcount and func_defaults (None when nothing has a default).
Linear == [name |-> "linear", co_varnames |-> <<"x", "a", "b">>,
           co_argcount |-> 3, func_defaults |-> PyTuple(<<1, 0>>)]
Cubic == [name |-> "cubic", co_varnames |-> <<"x", "a", "x3">>,
          co_argcount |-> 2, func_defaults |-> PyTuple(<<1>>)]
Root == [name |-> "root", co_varnames |-> <<"x", "a", "b">>,
         co_argcount |-> 3, func_defaults |-> PyTuple(<<1, 0>>)]
Const == [name |-> "const", co_varnames |-> <<"x">>,
          co_argcount |-> 1, func_defaults |-> PyNone]
Shifted == [name |-> "shifted", co_varnames |-> <<"x", "a">>,
            co_argcount |-> 2, func_defaults |-> PyTuple(<<0, 1>>)]
NoDef == [name |-> "nodef", co_varnames |-> <<"x", "a", "b">>,
          co_argcount |-> 3, func_defaults |-> PyTuple(<<0>>)]

Funcs == {Linear, Cubic, Root, Const, Shifted, NoDef}

NDefaults(f) == IF f.func_defaults = PyNone THEN 0 ELSE Len(f.func_defaults.items)

\* the body of each function-under-test on a complete argument list
Body(f, a) ==
  CASE f.name = "linear" -> [ok |-> TRUE, val |-> a[2] * a[1] + a[3]]
    [] f.name = "cubic" -> [ok |-> TRUE, val |-> a[2] * a[1] * a[1] * a[1]]
    [] f.name = "root" ->
         IF a[1] < 0 \/ a[2] < 0
         THEN [ok |-> FALSE, exc |-> "ValueError"]
         ELSE [ok |-> TRUE, val |-> a[2] * a[1] + a[3]]
    [] f.name = "const" -> [ok |-> TRUE, val |-> 1]
    [] f.name = "shifted" -> [ok |-> TRUE, val |-> a[1] + a[2]]
    [] f.name = "nodef" -> [ok |-> TRUE, val |-> a[2] * a[1] + a[3]]

\* func(*argument_list): Python binds positional arguments, fills the
\* missing trailing ones from func_defaults and rejects a wrong count
Call(f, args) ==
  LET n == Len(args)
      nd == NDefaults(f)
      first == f.co_argcount - nd
      full == [p \in 1..f.co_argcount |->
                 IF p <= n THEN args[p] ELSE f.func_defaults.items[p - first]]
  IN IF n > f.co_argcount \/ n < first
     THEN [ok |-> FALSE, exc |-> "TypeError"]
     ELSE Body(f, full)

\* ------------------------------------------------ scipy.misc.derivative
\* scipy_der(func, x0, dx, n=1, args=(), order=3): the callee is either the
\* function-under-test itself (derive_by_x) or the closure tmp_func
\* (derivative), which closes over func, derive_by_index and variables_tuple
FuncCallee(f) == [kind |-> "func", f |-> f]
TmpCallee(f, k, vt) == [kind |-> "tmp_func", f |-> f, k |-> k, vt |-> vt]

\* tmp_func(derive_by_var): the argument list handed to func
\* variant: the index compared one-based
TmpFuncShifted(derive_by_index, variables_tuple, derive_by_var) ==
  [i \in 1..Len(variables_tuple) |->
     IF i = derive_by_index THEN derive_by_var ELSE variables_tuple[i]]

TmpFunc(derive_by_index, variables_tuple, derive_by_var) ==
  [i \in 1..Len(variables_tuple) |->
     IF i - 1 = derive_by_index THEN derive_by_var ELSE variables_tuple[i]]

\* the positional arguments the function-under-test finally receives when
\* scipy calls callee(point, *args)
ArgumentList(callee, point, args) ==
  IF callee.kind = "func" THEN <<point>> \o args
  ELSE TmpFunc(callee.k, callee.vt, point)

\* order = 3: weights = array([-1, 0, 1]) / 2.0 and ho = order >> 1
Order == 3
Ho == 1
TwiceWeights == <<-1, 0, 1>>

RECURSIVE ScipyDerLoop(_, _, _, _, _, _, _)
ScipyDerLoop(callee, x0, args, dx, k, twiceVal, log) ==
  IF k >= Order THEN Ok(Rat(twiceVal, 2 * dx), log)
  ELSE LET point == x0 + (k - Ho) * dx
           al == ArgumentList(callee, point, args)
           r == Call(callee.f, al)
       IN IF ~r.ok
          THEN Raise(r.exc, "func",
                     Append(log, [f |-> callee.f.name, args |-> al, exc |-> r.exc]))
          ELSE ScipyDerLoop(callee, x0, args, dx, k + 1,
                            twiceVal + TwiceWeights[k + 1] * r.val,
                            Append(log, [f |-> callee.f.name, args |-> al, exc |-> ""]))

\* x0 is a Python value: x0 + (k-ho)*dx raises TypeError inside scipy, before
\* any call of the callee, when x0 is not a number
ScipyDer(callee, x0, args, dx, log) ==
  IF x0.t # "int" THEN Raise("TypeError", "scipy", log)
  ELSE ScipyDerLoop(callee, x0.v, args, dx, 0, 0, log)

\* ------------------------------------------------------------ derivative
\* variant: half the spacing handed to scipy_der
DerivativeHalfSpacing(func, derive_by_index, variables_tuple, derivative_spacing) ==
  IF derive_by_index >= Len(variables_tuple)
  THEN Raise("IndexError", "derivative", <<>>)
  ELSE ScipyDer(TmpCallee(func, derive_by_index, variables_tuple),
                PyInt(variables_tuple[derive_by_index + 1]), <<>>,
                derivative_spacing \div 2, <<>>)

\* variables_tuple[derive_by_index] is evaluated first and raises IndexError
\* for an index past the end of the tuple
Derivative(func, derive_by_index, variables_tuple, derivative_spacing) ==
  IF derive_by_index >= Len(variables_tuple)
  THEN Raise("IndexError", "derivative", <<>>)
  ELSE ScipyDer(TmpCallee(func, derive_by_index, variables_tuple),
                PyInt(variables_tuple[derive_by_index + 1]), <<>>,
                derivative_spacing, <<>>)

\* ------------------------------------------------------- numpy arrays
\* an ndarray is its shape and its elements in row-major order
IsArr(e) == "shape" \in DOMAIN e

RECURSIVE Flatten(_, _)
Flatten(list, i) ==
  IF i > Len(list) THEN <<>> ELSE list[i].data \o Flatten(list, i + 1)

\* np.asarray(output_list): a list of scalars becomes a 1-d array, a list of
\* equally shaped arrays gains a leading axis, anything else is an array of
\* objects
AsArray(list) ==
  IF list = <<>> THEN [shape |-> <<0>>, data |-> <<>>]
  ELSE IF \A i \in 1..Len(list) : ~IsArr(list[i])
       THEN [shape |-> <<Len(list)>>, data |-> list]
  ELSE IF \A i \in 1..Len(list) : IsArr(list[i]) /\ list[i].shape = list[1].shape
       THEN [shape |-> <<Len(list)>> \o list[1].shape, data |-> Flatten(list, 1)]
  ELSE [shape |-> <<Len(list)>>, data |-> list, dtype |-> "object"]

\* output_list.append(<call>): an exception raised by the call leaves the
\* loop and the function; nothing catches it
NaN == Rat(0, 0)

\* variant: a failed element recorded as NaN
AppendOutcomeSwallow(acc, r) ==
  IF r.ok THEN Ok(Append(acc.val, r.val), r.log)
  ELSE Ok(Append(acc.val, NaN), r.log)

AppendOutcome(acc, r) ==
  IF r.ok THEN Ok(Append(acc.val, r.val), r.log) ELSE r

\* ----------------------------------------------------------- derive_by_x
\* iter(x_0) raises TypeError exactly for the values that are not iterable
IsIterable(x) == x.t \in {"list", "tuple", "text"}

\* variant: the first element consumed before the loop
IterSkipFirst(x) ==
  IF x.t = "text" THEN [i \in 1..(Len(x.chars) - 1) |-> PyText(<<x.chars[i + 1]>>)]
  ELSE SubSeq(x.items, 2, Len(x.items))

\* the elements the iterator yields; a string yields its one-character
\* strings, which are strings again
Iter(x) ==
  IF x.t = "text" THEN [i \in 1..Len(x.chars) |-> PyText(<<x.chars[i]>>)]
  ELSE x.items

\* variant: the parameters not handed on
DeriveByXScalarNoArgs(func, x_0, param_list, derivative_spacing, log) ==
  ScipyDer(FuncCallee(func), x_0, <<>>, derivative_spacing, log)

\* the except branch: scipy_der(func, x_0, args=param_list, dx=...)
DeriveByXScalar(func, x_0, param_list, derivative_spacing, log) ==
  ScipyDer(FuncCallee(func), x_0, param_list, derivative_spacing, log)

\* depth counts the nested derive_by_x frames; the interpreter ends a
\* recursion deeper than its limit with a RuntimeError
RECURSIVE DeriveByXRec(_, _, _, _, _, _)
RECURSIVE DeriveByXLoop(_, _, _, _, _, _, _)
DeriveByXRec(func, x_0, param_list, derivative_spacing, depth, log) ==
  IF depth > RecursionLimit THEN Raise("RuntimeError", "interpreter", log)
  ELSE IF ~IsIterable(x_0)
       THEN DeriveByXScalar(func, x_0, param_list, derivative_spacing, log)
  ELSE DeriveByXLoop(func, Iter(x_0), 1, param_list, derivative_spacing,
                     depth, Ok(<<>>, log))

DeriveByXLoop(func, items, i, param_list, derivative_spacing, depth, acc) ==
  IF ~acc.ok THEN acc
  ELSE IF i > Len(items) THEN Ok(AsArray(acc.val), acc.log)
  ELSE DeriveByXLoop(func, items, i + 1, param_list, derivative_spacing, depth,
         AppendOutcome(acc, DeriveByXRec(func, items[i], param_list,
                                         derivative_spacing, depth + 1, acc.log)))

DeriveByX(func, x_0, param_list, derivative_spacing) ==
  DeriveByXRec(func, x_0, param_list, derivative_spacing, 1, <<>>)

\* -------------------------------------------------- derive_by_parameters
\* variant: the range starting at 0
XRangeFromZero(lo, hi) == [i \in 1..hi |-> i - 1]

\* xrange(lo, hi)
XRange(lo, hi) == [i \in 1..(hi - lo) |-> lo + i - 1]

\* derivative() starts its own evaluations; the log of the whole call is
\* the log so far followed by them
WithLog(log, r) == [r EXCEPT !.log = log \o r.log]

RECURSIVE DeriveByParametersLoop(_, _, _, _, _, _)
DeriveByParametersLoop(func, indices, i, variables_tuple, derivative_spacing, acc) ==
  IF ~acc.ok THEN acc
  ELSE IF i > Len(indices) THEN Ok(AsArray(acc.val), acc.log)
  ELSE DeriveByParametersLoop(func, indices, i + 1, variables_tuple,
         derivative_spacing,
         AppendOutcome(acc, WithLog(acc.log,
           Derivative(func, indices[i], variables_tuple, derivative_spacing))))

DeriveByParameters(func, x_0, param_list, derivative_spacing) ==
  LET variables_tuple == <<x_0>> \o param_list
  IN DeriveByParametersLoop(func, XRange(1, func.co_argcount), 1,
                            variables_tuple, derivative_spacing, Ok(<<>>, <<>>))

\* --------------------------------------------------------- outer_product
\* np.kron of two vectors: element i*m + j is a[i] * b[j].  For an empty
\* operand the implementation built on concatenate (numpy before 1.23)
\* raises ValueError "need at least one array to concatenate"; the
\* broadcasting implementation returns the empty vector.
Kron(a, b, impl) ==
  LET n == Len(a)
      m == Len(b)
  IN IF (n = 0 \/ m = 0) /\ impl = "concatenate"
     THEN Raise("ValueError", "numpy", <<>>)
     ELSE Ok([shape |-> <<n * m>>,
              data |-> [idx \in 1..(n * m) |->
                          a[((idx - 1) \div m) + 1] * b[((idx - 1) % m) + 1]]], <<>>)

\* ndarray.reshape(rows, cols)
Reshape(arr, rows, cols) ==
  IF rows * cols # Len(arr.data) THEN Raise("ValueError", "numpy", <<>>)
  ELSE Ok([shape |-> <<rows, cols>>, data |-> arr.data], <<>>)

OuterProduct(input_array, impl) ==
  LET la == Len(input_array)
      kr == Kron(input_array, input_array, impl)
  IN IF ~kr.ok THEN kr ELSE Reshape(kr.val, la, la)

\* entry (i, j), zero-based, of a 2-d array
Entry(arr, i, j) == arr.data[i * arr.shape[2] + j + 1]

\* ------------------------------------------------- get_function_property
KnownProps == {"name", "number of parameters", "parameter names",
               "parameter defaults"}
Props == KnownProps \cup {"bogus", "Name", "parameters"}

UnknownProperty(prop) ==
  [ok |-> FALSE, exc |-> "AttributeError",
   msg |-> <<"Error: Unknown function property ", prop>>]

\* variant: the 'parameter names' branch missing
GetFunctionPropertyNoNames(func, prop) ==
  IF prop = "name" THEN [ok |-> TRUE, val |-> PyName(func.name)]
  ELSE IF prop = "number of parameters"
       THEN [ok |-> TRUE, val |-> PyInt(func.co_argcount - 1)]
  ELSE IF prop = "parameter defaults"
       THEN [ok |-> TRUE, val |-> func.func_defaults]
  ELSE UnknownProperty(prop)

GetFunctionProperty(func, prop) ==
  IF prop = "name" THEN [ok |-> TRUE, val |-> PyName(func.name)]
  ELSE IF prop = "number of parameters"
       THEN [ok |-> TRUE, val |-> PyInt(func.co_argcount - 1)]
  ELSE IF prop = "parameter names"
       THEN [ok |-> TRUE,
             val |-> PyTuple(SubSeq(func.co_varnames, 2, func.co_argcount))]
  ELSE IF prop = "parameter defaults"
       THEN [ok |-> TRUE, val |-> func.func_defaults]
  ELSE UnknownProperty(prop)

\* ------------------------------------------------------------- inputs
ParamLists == SeqsUpTo(NatNums, MaxParams)
VarTuples == SeqsUpTo(NatNums, MaxParams + 1) \ {<<>>}
Vectors == SeqsUpTo(Nums, MaxVec)
NumericLists == {PyList(l) : l \in SeqsUpTo({PyInt(n) : n \in NatNums}, MaxPoints)}
OddInputs ==
  {PyNone, PyText(<<>>), PyText(<<"a">>), PyText(<<"a", "b">>),
   PyList(<<PyText(<<"a">>)>>), PyList(<<PyText(<<>>)>>),
   PyList(<<PyInt(2), PyText(<<"a", "b">>)>>),
   PyList(<<PyNone>>), PyList(<<PyInt(2), PyNone>>),
   PyTuple(<<PyInt(0), PyInt(1)>>),
   PyList(<<PyList(<<PyInt(0), PyInt(1)>>), PyList(<<PyInt(1), PyInt(2)>>)>>)}
XInputs == {PyInt(n) : n \in Nums} \cup NumericLists \cup OddInputs
KronImpls == {"concatenate", "broadcast"}

\* -------------------------------------------------------- state machine
VARIABLES func, pc, call, result, seen, seenClean, failed

vars == <<func, pc, call, result, seen, seenClean, failed>>

NoCall == [op |-> "none"]
NoResult == [ok |-> TRUE, val |-> PyNone, log |-> <<>>]

Init ==
  /\ func \in Funcs
  /\ pc = "idle"
  /\ call = NoCall
  /\ result = NoResult
  /\ seen = [p \in {} |-> NoResult]
  /\ seenClean = {}
  /\ failed = FALSE

DerivativeCall ==
  /\ pc = "idle"
  /\ \E k \in 0..(MaxParams + 1), vt \in VarTuples, h \in Steps :
       /\ call' = [op |-> "derivative", k |-> k, vt |-> vt, h |-> h]
       /\ result' = Derivative(func, k, vt, h)
  /\ pc' = "done"
  /\ UNCHANGED <<func, seen, seenClean, failed>>

DeriveByXCall ==
  /\ pc = "idle"
  /\ \E x_0 \in XInputs, param_list \in ParamLists, h \in Steps :
       /\ call' = [op |-> "derive_by_x", x_0 |-> x_0,
                   param_list |-> param_list, h |-> h]
       /\ result' = DeriveByX(func, x_0, param_list, h)
  /\ pc' = "done"
  /\ UNCHANGED <<func, seen, seenClean, failed>>

DeriveByParametersCall ==
  /\ pc = "idle"
  /\ \E x_0 \in Nums, param_list \in ParamLists, h \in Steps :
       /\ call' = [op |-> "derive_by_parameters", x_0 |-> x_0,
                   param_list |-> param_list, h |-> h]
       /\ result' = DeriveByParameters(func, x_0, param_list, h)
  /\ pc' = "done"
  /\ UNCHANGED <<func, seen, seenClean, failed>>

OuterProductCall ==
  /\ pc = "idle"
  /\ \E input_array \in Vectors, impl \in KronImpls :
       /\ call' = [op |-> "outer_product", input_array |-> input_array,
                   impl |-> impl]
       /\ result' = OuterProduct(input_array, impl)
  /\ pc' = "done"
  /\ UNCHANGED <<func, seen, seenClean, failed>>

GetFunctionPropertyCall ==
  /\ pc = "idle"
  /\ \E prop \in Props :
       LET r == GetFunctionProperty(func, prop)
       IN /\ call' = [op |-> "get_function_property", prop |-> prop]
          /\ result' = r
          /\ seen' = [p \in DOMAIN seen \cup {prop} |->
                        IF p \in DOMAIN seen THEN seen[p] ELSE r]
          /\ seenClean' = IF failed THEN seenClean ELSE seenClean \cup {prop}
          /\ failed' = (failed \/ ~r.ok)
  /\ pc' = "done"
  /\ UNCHANGED func

\* the call returns to the caller; nothing of it is kept
Return ==
  /\ pc = "done"
  /\ pc' = "idle"
  /\ call' = NoCall
  /\ result' = NoResult
  /\ UNCHANGED <<func, seen, seenClean, failed>>

Next ==
  \/ DerivativeCall
  \/ DeriveByXCall
  \/ DeriveByParametersCall
  \/ OuterProductCall
  \/ Return

Spec == Init /\ [][Next]_vars

NextIntro ==
  \/ GetFunctionPropertyCall
  \/ Return

SpecIntro == Init /\ [][NextIntro]_vars

Done(op) == pc = "done" /\ call.op = op

\* ================================================================ claims

\* C1: derive_by_x on a sequence of numeric points returns an array of the
\* same length whose element i is derive_by_x of the single point xs[i]
\* (an empty sequence gives an empty array); when the function-under-test
\* raises at some point, the sequence call raises as well.
C1_SequenceMatchesPointwise ==
  (Done("derive_by_x") /\ call.x_0 \in NumericLists) =>
    LET xs == call.x_0.items
        single == [i \in 1..Len(xs) |->
                     DeriveByX(func, xs[i], call.param_list, call.h)]
    IN IF \A i \in 1..Len(xs) : single[i].ok
       THEN /\ result.ok
            /\ result.val.shape = <<Len(xs)>>
            /\ Len(result.val.data) = Len(xs)
            /\ \A i \in 1..Len(xs) : result.val.data[i] = single[i].val
       ELSE ~result.ok

C1_Witness ==
  /\ Done("derive_by_x")
  /\ call.x_0 \in NumericLists
  /\ Len(call.x_0.items) >= 2
  /\ result.ok
  /\ result.val.shape = <<Len(call.x_0.items)>>
  /\ result.val.data[1] # result.val.data[2]

\* C2: a derive_by_parameters call that returns gives a vector with one
\* entry per declared parameter (declared argument count minus one), entry
\* i-1 being derivative(func, i, (x0, *params), h), whatever the length of
\* params.
C2_GradientLengthAndOrder ==
  (Done("derive_by_parameters") /\ result.ok) =>
    LET n == func.co_argcount - 1
        vt == <<call.x_0>> \o call.param_list
    IN /\ result.val.shape = <<n>>
       /\ Len(result.val.data) = n
       /\ \A i \in 1..n :
            LET d == Derivative(func, i, vt, call.h)
            IN d.ok /\ result.val.data[i] = d.val

C2_Witness ==
  /\ Done("derive_by_parameters")
  /\ func = Linear
  /\ result.ok
  /\ call.x_0 = 2
  /\ result.val.shape = <<2>>
  /\ RatEq(result.val.data[1], Rat(2, 1))
  /\ RatEq(result.val.data[2], Rat(1, 1))

\* C3 as stated: derivative evaluates the function with the k-th variable at
\* v + h/2 and v - h/2 and returns (f(v+h/2) - f(v-h/2)) / h.
C3_HalfStepQuotient ==
  (Done("derivative") /\ result.ok) =>
    LET k == call.k + 1
        v == call.vt[k]
        half == call.h \div 2
        fplus == Call(func, [i \in 1..Len(call.vt) |->
                               IF i = k THEN v + half ELSE call.vt[i]])
        fminus == Call(func, [i \in 1..Len(call.vt) |->
                                IF i = k THEN v - half ELSE call.vt[i]])
    IN /\ \A e \in 1..Len(result.log) :
            result.log[e].args[k] \in {v + half, v - half}
       /\ fplus.ok /\ fminus.ok
       /\ RatEq(result.val, Rat(fplus.val - fminus.val, call.h))

\* C3 amended: derivative evaluates the function with the k-th variable at
\* v - h, v and v + h, in this order, and returns
\* (f(v+h) - f(v-h)) / (2h).
C3_FullStepQuotient ==
  (Done("derivative") /\ result.ok) =>
    LET k == call.k + 1
        v == call.vt[k]
        fplus == Call(func, [i \in 1..Len(call.vt) |->
                               IF i = k THEN v + call.h ELSE call.vt[i]])
        fminus == Call(func, [i \in 1..Len(call.vt) |->
                                IF i = k THEN v - call.h ELSE call.vt[i]])
    IN /\ Len(result.log) = 3
       /\ \A e \in 1..3 : result.log[e].args[k] = v + (e - 2) * call.h
       /\ fplus.ok /\ fminus.ok
       /\ RatEq(result.val, Rat(fplus.val - fminus.val, 2 * call.h))

C3_Witness ==
  /\ Done("derivative")
  /\ func = Cubic
  /\ call.k = 0
  /\ call.vt = <<1, 1>>
  /\ call.h = 2
  /\ result.ok
  /\ RatEq(result.val, Rat(7, 1))

\* C4: for a numeric scalar point x, derive_by_x(func, x, params, h) has the
\* outcome of derivative(func, 0, (x, *params), h): the same evaluations of
\* func with the same arguments, and the same quotient or failure.
C4_ScalarDelegatesToEngine ==
  (Done("derive_by_x") /\ call.x_0.t = "int") =>
    result = Derivative(func, 0, <<call.x_0.v>> \o call.param_list, call.h)

C4_Witness ==
  /\ Done("derive_by_x")
  /\ call.x_0.t = "int"
  /\ func = Linear
  /\ call.param_list = <<2, 1>>
  /\ result.ok
  /\ Len(result.log) = 3
  /\ RatEq(result.val, Rat(2, 1))

\* C5: when the function-under-test raises during an evaluation made by
\* derivative, derive_by_x or derive_by_parameters, that evaluation is the
\* last one of the call and the call ends with that failure, returning no
\* value.
C5_FailurePropagates ==
  (pc = "done" /\ call.op \in {"derivative", "derive_by_x", "derive_by_parameters"}) =>
    \A e \in 1..Len(result.log) :
      result.log[e].exc # "" =>
        /\ e = Len(result.log)
        /\ ~result.ok
        /\ result.exc = result.log[e].exc
        /\ result.by = "func"

C5_Witness ==
  /\ Done("derive_by_x")
  /\ func = Root
  /\ call.x_0 \in NumericLists
  /\ call.x_0.items = <<PyInt(1), PyInt(2)>>
  /\ call.h = 2
  /\ call.param_list = <<1, 0>>
  /\ ~result.ok
  /\ result.exc = "ValueError"
  /\ Len(result.log) = 1

\* C6: derive_by_x on a sequence of non-empty strings ends with the failure the
\* function-under-test raises when it is evaluated on the bad element: the
\* recursion reaches a scalar evaluation.
C6_BadElementFailsInFunc ==
  (Done("derive_by_x") /\ call.x_0.t = "list" /\ call.x_0.items # <<>>
     /\ \A i \in 1..Len(call.x_0.items) :
          call.x_0.items[i].t = "text" /\ call.x_0.items[i].chars # <<>>) =>
    /\ ~result.ok
    /\ result.by = "func"
    /\ result.log # <<>>
    /\ result.log[Len(result.log)].exc = result.exc

\* C7: get_function_property raises the unknown-property error, naming the
\* tag, exactly for the tags outside the four recognized ones; a recognized
\* tag returns a value, the same one as in the first lookup of that tag,
\* whether or not an unknown-tag lookup happened in between.
C7_UnknownPropertyOnly ==
  Done("get_function_property") =>
    /\ call.prop \notin KnownProps =>
         /\ ~result.ok
         /\ result.exc = "AttributeError"
         /\ result.msg[2] = call.prop
    /\ call.prop \in KnownProps =>
         /\ result.ok
         /\ result = seen[call.prop]

C7_Witness ==
  /\ Done("get_function_property")
  /\ failed
  /\ call.prop = "parameter names"
  /\ call.prop \in seenClean
  /\ result.ok

\* C8: for a function whose arguments after the first all declare a
\* default, 'number of parameters' is the argument count minus one,
\* 'parameter names' is the argument names without the first, and
\* 'parameter defaults' is a sequence of that length whose entry i is the
\* declared default of name i.
C8_IntrospectionAgrees ==
  (/\ NDefaults(func) >= func.co_argcount - 1
   /\ {"number of parameters", "parameter names", "parameter defaults"} \subseteq DOMAIN seen) =>
    LET number == seen["number of parameters"].val
        names == seen["parameter names"].val
        defaults == seen["parameter defaults"].val
        n == func.co_argcount - 1
        first == func.co_argcount - NDefaults(func)
    IN /\ number = PyInt(n)
       /\ names = PyTuple([i \in 1..n |-> func.co_varnames[i + 1]])
       /\ defaults.t = "tuple"
       /\ Len(defaults.items) = n
       /\ \A i \in 1..n : defaults.items[i] = func.func_defaults.items[i + 1 - first]

\* C9: outer_product(v) is the n-by-n matrix with entry (i, j) = v[i] * v[j]
\* for every vector of length n >= 0; the empty vector gives a 0-by-0
\* result without error.
C9_OuterProductEntries ==
  Done("outer_product") =>
    LET v == call.input_array
        n == Len(v)
    IN /\ result.ok
       /\ result.val.shape = <<n, n>>
       /\ Len(result.val.data) = n * n
       /\ \A i \in 0..(n - 1), j \in 0..(n - 1) :
            Entry(result.val, i, j) = v[i + 1] * v[j + 1]

\* C10: every evaluation of the function-under-test made by derivative gets
\* an argument list as long as the variables tuple that equals it at every
\* position but k; position k carries the perturbed value.
C10_OnlyKthArgumentVaries ==
  Done("derivative") =>
    \A e \in 1..Len(result.log) :
      LET args == result.log[e].args
      IN /\ Len(args) = Len(call.vt)
         /\ \A p \in 1..Len(args) : p # call.k + 1 => args[p] = call.vt[p]
         /\ args[call.k + 1] = call.vt[call.k + 1] + (e - 1 - Ho) * call.h

C10_Witness ==
  /\ Done("derivative")
  /\ Len(call.vt) = 3
  /\ call.k = 1
  /\ Len(result.log) = 3
  /\ result.log[1].args[2] # call.vt[2]
  /\ result.log[1].args[1] = call.vt[1]
  /\ result.log[1].args[3] = call.vt[3]
====
